---- MODULE Spec2Model ----
(***************************************************************************)
(* Order lifecycle and delivery assignment of the Indian Food App.         *)
(*                                                                         *)
(* The store is the SQLite database shared by all request handlers.  The   *)
(* handlers of src/app.py (api_order, admin_order_status) issue one write  *)
(* statement per table and are modelled as one step each.  The handlers of *)
(* src/drivers_api.py first SELECT the order row and later UPDATE it; the  *)
(* sqlite3 module opens a transaction only before the first write          *)
(* statement, so other requests can commit between the SELECT and the      *)
(* UPDATE: these handlers are modelled as a read step and a write step.    *)
(*                                                                         *)
(* Spec and SpecShort are the whole server under two request budgets;      *)
(* SpecFees is the two order routes under the pricing configurations;      *)
(* SpecPlace is single order requests over item lists, restaurant ids,     *)
(* coordinates, fee modes, mapping-service replies and hours of the day.   *)
(* SpecPresence is the presence reports; SpecDelivery the handlers that    *)
(* act on a placed order together with presence reports; SpecRead orders   *)
(* placed and read back; SpecConcurrent concurrent POST /api/order         *)
(* requests, with the handler split into the statements that other         *)
(* requests can interleave with (in the other specifications it is one     *)
(* step).                                                                  *)
(***************************************************************************)
EXTENDS Integers, Sequences, FiniteSets, TLC

\* ------------------------------------------------------------------ bounds
\* Largest number of order rows the model creates.
MaxOrders == 1
\* Number of registered, active drivers (rows of the drivers table).
NumDrivers == 2
\* Number of requests received in one behaviour.
MaxRequests == 4
\* Number of requests received in one behaviour of SpecShort.
ShortRequests == 3

\* ------------------------------------------------------- values and inputs
\* SQL NULL / Python None; ids are AUTOINCREMENT and start at 1.
NULL == 0

Drivers == 1..NumDrivers
OrderIds == 1..MaxOrders

\* The status values admin_order_status accepts.
allowed ==
  {"pending", "confirmed", "preparing", "out_for_delivery", "ready",
   "delivered", "cancelled"}

\* Raw values of the "status" form field sent to admin_order_status.
RawStatuses == allowed \cup {" Ready ", "on_the_way", ""}

\* (request.form.get("status") or "").strip().lower()
strip_lower(raw) ==
  IF raw = " Ready " THEN "ready" ELSE raw

\* Values of the optional "status" field of POST /api/driver/update
\* ("" stands for a missing field).
DriverStatuses == {"picked_up", "delivered", "arrived"}

\* Contact emails sent to POST /api/order ("" stands for no email).
Emails == {"", "guest@example.com"}

\* Bootstrap administrator account created by init_db.
ADMIN_EMAIL_DEFAULT == "admin@example.com"

\* Line-item lists sent to POST /api/order.
ItemLists ==
  { <<>>,
    << [price |-> 159000, qty |-> 2], [price |-> 25000, qty |-> 1] >> }

\* Process-wide pricing configuration (defaults of the environment).
DELIVERY_FEE_FLAT == 0
SERVICE_FEE_PERCENT == 0

\* --------------------------------------------------------------- variables
VARIABLES
  orders,   \* the orders table: sequence of rows, row id = index
  users,    \* the users table: sequence of emails, row id = index
  req,      \* per driver: the driver API request between its SELECT and
            \* its UPDATE, if any
  resp,     \* the response of the request answered last
  sent,     \* number of requests received so far
  driver_presence,  \* the driver_presence table: sequence of rows
  placing   \* per client: the POST /api/order request being served, if any

vars == <<orders, users, req, resp, sent, driver_presence, placing>>

\* What "SELECT id, status, driver_id FROM orders WHERE id=?" returns.
NoRow == [found |-> FALSE, status |-> "", driver_id |-> NULL]

SelectOrder(ords, order_id) ==
  IF order_id \in 1..Len(ords)
    THEN [found |-> TRUE, status |-> ords[order_id].status,
          driver_id |-> ords[order_id].driver_id]
    ELSE NoRow

IdleReq == [op |-> "none", order_id |-> NULL, status |-> "", o |-> NoRow]

\* Clients that send POST /api/order requests served step by step.
NumClients == 2
Clients == 1..NumClients

\* No POST /api/order request of the client is being served.
NotPlacing == [pc |-> "none"]

\* A response: the handler, the HTTP status code, the error message (driver
\* API) or flash category (admin pages), and what became of the notification
\* email.
Response(op, code, msg, mail) ==
  [op |-> op, code |-> code, msg |-> msg, mail |-> mail]

NoResp == Response("none", 0, "", "none")

Init ==
  /\ orders = <<>>
  /\ users = <<ADMIN_EMAIL_DEFAULT>>
  /\ req = [d \in Drivers |-> IdleReq]
  /\ resp = NoResp
  /\ driver_presence = <<>>
  /\ placing = [c \in Clients |-> NotPlacing]
  /\ sent = 0

\* The server receives one more request.
Receive == sent < MaxRequests /\ sent' = sent + 1

\* ------------------------------------------------------------- place order
RECURSIVE SumItems(_)
\* sum(float(i["price"]) * int(i.get("qty",1)) for i in items)
SumItems(items) ==
  IF items = <<>> THEN 0
  ELSE Head(items).price * Head(items).qty + SumItems(Tail(items))

\* The 100.0 of SERVICE_FEE_PERCENT/100.0.
HUNDRED == 100

\* A quantity is a JSON number: item.qty is its whole part and the optional
\* field item.half counts a fractional part in halves (qty 0, half 1 is the
\* quantity 0.5).  int(qty) is item.qty; float(qty) is qty + half / 2.
half_of(item) == IF "half" \in DOMAIN item THEN item.half ELSE 0

RECURSIVE SumItemsFloat(_)
\* sum(float(i.get("price",0)) * float(i.get("qty",1)) for i in items), in
\* hundredths.
SumItemsFloat(items) ==
  IF items = <<>> THEN 0
  ELSE Head(items).price * Head(items).qty * HUNDRED
         + Head(items).price * half_of(Head(items)) * (HUNDRED \div 2)
         + SumItemsFloat(Tail(items))

\* float(n).  The amounts of the code are floats; the model counts them in
\* hundredths of the currency unit, in which the percentage of a whole amount
\* is a whole number.
Amount(n) == n * HUNDRED

\* Mutant: the percentage is applied as a factor.
ServiceFee_without_division(items_total, percent) ==
  IF percent > 0 THEN items_total * percent ELSE 0

\* (items_total * (SERVICE_FEE_PERCENT/100.0)) if SERVICE_FEE_PERCENT > 0 else 0.0
ServiceFee(items_total, percent) ==
  IF percent > 0 THEN (items_total * percent) \div HUNDRED ELSE 0

\* SELECT id FROM users WHERE email=?  (NULL when there is no such row)
UserIdOf(us, email) ==
  IF \E i \in 1..Len(us) : us[i] = email
    THEN CHOOSE i \in 1..Len(us) : us[i] = email
    ELSE NULL

\* Mutant: the row is stored already confirmed.
NewOrderRow_confirmed(user_id, items, items_total, service_fee, delivery_fee) ==
  [user_id |-> user_id, items |-> items,
   total |-> items_total + service_fee + delivery_fee,
   status |-> "confirmed", driver_id |-> NULL,
   picked_up_at |-> NULL, delivered_at |-> NULL,
   items_total |-> items_total, service_fee |-> service_fee,
   delivery_fee |-> delivery_fee,
   grand_total |-> items_total + service_fee + delivery_fee]

\* The row both INSERT INTO orders statements store: status 'pending', no
\* driver_id column in the statement, so the driver reference is NULL.
NewOrderRow(user_id, items, items_total, service_fee, delivery_fee) ==
  [user_id |-> user_id, items |-> items,
   total |-> items_total + service_fee + delivery_fee,
   status |-> "pending", driver_id |-> NULL,
   picked_up_at |-> NULL, delivered_at |-> NULL,
   items_total |-> items_total, service_fee |-> service_fee,
   delivery_fee |-> delivery_fee,
   grand_total |-> items_total + service_fee + delivery_fee]

\* ---------------------------------------------------------- delivery fee
\* Distances (km), durations (min), coordinates (degrees) and the fee before
\* rounding are floats in the code; the model counts each of them in
\* thousandths.  THOUSAND is also the 1000.0 of metres to kilometres.
THOUSAND == 1000

\* The 60.0 of dur_sec / 60.0.
SIXTY == 60

\* An optional field of a JSON object or reply: <<>> when the key is absent,
\* <<v>> when it holds v.
Absent == <<>>

\* data.get(key) or 0, and the (... .get("value") or 0) of the reply.
ValueOr0(field) == IF field = Absent THEN 0 ELSE field[1]

\* The restaurant and the drop-off points of the requests, in thousandths of
\* a degree; the last drop-off point lies on the equator (latitude 0.0).
RESTAURANT == [lat |-> 20, lng |-> 109340]
DROPOFF_NEAR == [lat |-> 44, lng |-> 109339]
DROPOFF_FAR == [lat |-> 65, lng |-> 109303]
DROPOFF_EQUATOR == [lat |-> 0, lng |-> 109338]

\* haversine_km, in metres, tabulated from the code for the points above:
\* 2.671 km, 6.478 km and 2.235 km, each to a centimetre.
haversine_km(lat1, lng1, lat2, lng2) ==
  CASE <<lat1, lng1>> = <<lat2, lng2>> -> 0
    [] <<lat1, lng1, lat2, lng2>> = <<20, 109340, 44, 109339>> -> 2671
    [] <<lat1, lng1, lat2, lng2>> = <<20, 109340, 65, 109303>> -> 6478
    [] <<lat1, lng1, lat2, lng2>> = <<20, 109340, 0, 109338>> -> 2235

\* What the mapping service does with the request: a reply is "ok" when it
\* parses and has rows[0].elements[0]; its element may lack any of the three
\* values.
NoEstimate == [none |-> TRUE, dist_km |-> 0, dur_min |-> 0]

GeoReply(kind, distance, duration_in_traffic, duration) ==
  [kind |-> kind, distance |-> distance,
   duration_in_traffic |-> duration_in_traffic, duration |-> duration]

\* google_drive_time_distance: (None, None) on any exception.  The reply
\* counts the distance in metres, which is the distance in thousandths of a
\* kilometre, and the duration in seconds.
google_drive_time_distance(geo) ==
  IF geo.kind # "ok" THEN NoEstimate
  ELSE LET dur_sec == IF ValueOr0(geo.duration_in_traffic) # 0
                        THEN ValueOr0(geo.duration_in_traffic)
                        ELSE ValueOr0(geo.duration)
       IN [none |-> FALSE,
           dist_km |-> ValueOr0(geo.distance),
           dur_min |-> (dur_sec * THOUSAND) \div SIXTY]

\* Mutant: the evening rush hour is left out.
time_of_day_multiplier_morning_only(hr) ==
  IF 7 <= hr /\ hr <= 9 THEN 130
  ELSE IF 11 <= hr /\ hr <= 13 THEN 115
  ELSE 100

\* time_of_day_multiplier, in hundredths (1.3, 1.15, 1.0).
time_of_day_multiplier(hr) ==
  IF (7 <= hr /\ hr <= 9) \/ (16 <= hr /\ hr <= 19) THEN 130
  ELSE IF 11 <= hr /\ hr <= 13 THEN 115
  ELSE 100

max(a, b) == IF a >= b THEN a ELSE b
min(a, b) == IF a <= b THEN a ELSE b

\* round(fee): the nearest whole number, a half goes to the even one.
round(fee) ==
  LET q == fee \div THOUSAND
      r == fee % THOUSAND
  IN IF 2 * r < THOUSAND THEN q
     ELSE IF 2 * r > THOUSAND THEN q + 1
     ELSE IF q % 2 = 0 THEN q ELSE q + 1

\* The estimate compute_dynamic_delivery_fee prices: the one of the mapping
\* service when a key is configured and the call gives one, else the straight
\* line with three minutes per kilometre times the time-of-day multiplier.
estimate(cfg, geo, hr, pu_lat, pu_lng, do_lat, do_lng) ==
  LET g == IF cfg.api_key THEN google_drive_time_distance(geo) ELSE NoEstimate
      dist_km == haversine_km(pu_lat, pu_lng, do_lat, do_lng)
  IN IF ~g.none THEN g
     ELSE [none |-> FALSE, dist_km |-> dist_km,
           dur_min |-> (dist_km * 3 * time_of_day_multiplier(hr)) \div HUNDRED]

\* Mutant: the fee is not capped.
dynamic_fee_without_max(cfg, dist_km, dur_min) ==
  LET fee == cfg.base * THOUSAND + cfg.per_km * max(dist_km, 0)
               + cfg.per_min * max(dur_min, 0)
      floored == IF cfg.min_fee > 0 THEN max(fee, cfg.min_fee * THOUSAND)
                 ELSE fee
  IN round(floored)

\* Mutant: the minutes are taken off the fee.
dynamic_fee_minus_duration(cfg, dist_km, dur_min) ==
  LET fee == cfg.base * THOUSAND + cfg.per_km * max(dist_km, 0)
               - cfg.per_min * max(dur_min, 0)
      floored == IF cfg.min_fee > 0 THEN max(fee, cfg.min_fee * THOUSAND)
                 ELSE fee
      capped == IF cfg.max_fee > 0 THEN min(floored, cfg.max_fee * THOUSAND)
                ELSE floored
  IN round(capped)

\* The fee lines of compute_dynamic_delivery_fee, in whole currency units.
dynamic_fee(cfg, dist_km, dur_min) ==
  LET fee == cfg.base * THOUSAND + cfg.per_km * max(dist_km, 0)
               + cfg.per_min * max(dur_min, 0)
      floored == IF cfg.min_fee > 0 THEN max(fee, cfg.min_fee * THOUSAND)
                 ELSE fee
      capped == IF cfg.max_fee > 0 THEN min(floored, cfg.max_fee * THOUSAND)
                ELSE floored
  IN round(capped)

compute_dynamic_delivery_fee(cfg, geo, hr, pu_lat, pu_lng, do_lat, do_lng) ==
  LET e == estimate(cfg, geo, hr, pu_lat, pu_lng, do_lat, do_lng)
  IN dynamic_fee(cfg, e.dist_km, e.dur_min)

\* The body of a POST /api/order request.
OrderData(email, items, restaurant_id, restaurant, dropoff) ==
  [email |-> email, items |-> items, restaurant_id |-> restaurant_id,
   restaurant_lat |-> IF restaurant = Absent THEN Absent
                      ELSE <<restaurant[1].lat>>,
   restaurant_lng |-> IF restaurant = Absent THEN Absent
                      ELSE <<restaurant[1].lng>>,
   dropoff_lat |-> IF dropoff = Absent THEN Absent ELSE <<dropoff[1].lat>>,
   dropoff_lng |-> IF dropoff = Absent THEN Absent ELSE <<dropoff[1].lng>>]

\* The pricing configuration of the environment: the fee mode, the flat fee,
\* the service fee percentage, the parameters of the dynamic fee and whether
\* GOOGLE_MAPS_API_KEY is set.
PricingConfig(mode, flat, percent, base, per_km, per_min, min_fee, max_fee, api_key) ==
  [mode |-> mode, flat |-> flat, percent |-> percent, base |-> base,
   per_km |-> per_km, per_min |-> per_min, min_fee |-> min_fee,
   max_fee |-> max_fee, api_key |-> api_key]

\* restaurant_id values of the requests: none, a number, not a number.
RestaurantIds == {"", "7", "seven"}

\* int(data.get("restaurant_id")) raises ValueError.
int_raises(restaurant_id) == restaurant_id \notin {"", "7"}

\* mode == "dynamic" and all([rest_lat, rest_lng, drop_lat, drop_lng])
use_dynamic_fee(cfg, rest_lat, rest_lng, drop_lat, drop_lng) ==
  /\ cfg.mode = "dynamic"
  /\ rest_lat # 0 /\ rest_lng # 0 /\ drop_lat # 0 /\ drop_lng # 0

\* Mutant: the flat fee grows with the latitude of the drop-off point.
delivery_fee_of_with_latitude(data, cfg, geo, hr) ==
  cfg.flat + ValueOr0(data.dropoff_lat)

\* The delivery fee lines of api_order.
delivery_fee_of(data, cfg, geo, hr) ==
  LET drop_lat == ValueOr0(data.dropoff_lat)
      drop_lng == ValueOr0(data.dropoff_lng)
      rest_lat == ValueOr0(data.restaurant_lat)
      rest_lng == ValueOr0(data.restaurant_lng)
  IN IF use_dynamic_fee(cfg, rest_lat, rest_lng, drop_lat, drop_lng)
       THEN compute_dynamic_delivery_fee(cfg, geo, hr, rest_lat, rest_lng,
                                         drop_lat, drop_lng)
       ELSE cfg.flat

\* POST /api/order: data is the body of the request, cfg the pricing
\* configuration of the environment, geo what the mapping service does when
\* it is called, hr the hour of the clock, and smtp_ok what send_email_safe
\* returns for the confirmation (the handler does not read it).  The guest
\* account is inserted and committed before the arguments of INSERT INTO
\* orders are evaluated, where int() of the restaurant id may raise.
api_order_request(data, cfg, geo, hr, smtp_ok) ==
  /\ Receive
  /\ IF data.items = <<>>
       THEN /\ resp' = Response("api_order", 400, "No items", "none")
            /\ UNCHANGED <<driver_presence, placing, orders, users, req>>
       ELSE LET email == data.email
                items_total == Amount(SumItems(data.items))
                delivery_fee == Amount(delivery_fee_of(data, cfg, geo, hr))
                service_fee == ServiceFee(items_total, cfg.percent)
                users2 == IF email # "" /\ UserIdOf(users, email) = NULL
                            THEN Append(users, email) ELSE users
                user_id == IF email # "" THEN UserIdOf(users2, email) ELSE NULL
            IN IF int_raises(data.restaurant_id)
                 THEN /\ users' = users2
                      /\ resp' = Response("api_order", 500, "", "none")
                      /\ UNCHANGED <<driver_presence, placing, orders, req>>
                 ELSE /\ Len(orders) < MaxOrders
                      /\ users' = users2
                      /\ orders' = Append(orders,
                           NewOrderRow(user_id, data.items, items_total,
                                       service_fee, delivery_fee))
                      /\ resp' = Response("api_order", 200, "",
                                    IF email = "" THEN "none"
                                    ELSE IF smtp_ok THEN "sent" ELSE "failed")
                      /\ UNCHANGED <<driver_presence, placing, req>>

\* What the mapping service does when no call is made or observed.
GEO_UNREACHABLE == GeoReply("unreachable", Absent, Absent, Absent)

\* POST /api/order in flat pricing mode, under a pricing configuration:
\* smtp_ok is what send_email_safe returns for the confirmation (the handler
\* does not read it), percent is SERVICE_FEE_PERCENT and flat the flat
\* delivery fee of the environment.
api_order_priced(email, items, smtp_ok, percent, flat) ==
  api_order_request(OrderData(email, items, "", Absent, Absent),
                    PricingConfig("flat", flat, percent, 0, 0, 0, 0, 0, FALSE),
                    GEO_UNREACHABLE, 0, smtp_ok)

\* POST /api/order under the default pricing configuration.
api_order(email, items, smtp_ok) ==
  api_order_priced(email, items, smtp_ok, SERVICE_FEE_PERCENT,
                   DELIVERY_FEE_FLAT)

\* POST /order (the order page of a logged-in user): user_id is the user of
\* the session, percent and flat the pricing configuration.  The item list
\* may be empty.
order(user_id, items, percent, flat) ==
  /\ Receive
  /\ user_id \in 1..Len(users)
  /\ Len(orders) < MaxOrders
  /\ LET items_total == SumItemsFloat(items)
         service_fee == ServiceFee(items_total, percent)
         delivery_fee == IF flat > 0 THEN Amount(flat) ELSE 0
     IN orders' = Append(orders,
          NewOrderRow(user_id, items, items_total, service_fee, delivery_fee))
  /\ resp' = Response("order", 302, "success", "none")
  /\ UNCHANGED <<driver_presence, placing, users, req>>

\* Values of SERVICE_FEE_PERCENT and of DELIVERY_FEE_FLAT in the environment.
FeePercents == {0, 5}
FlatFees == {0, 15000}

\* Line items with non-negative prices and quantities, and the lists of them
\* sent to the two order routes.
FeeItems == {[price |-> p, qty |-> q] : p \in {0, 99, 25000}, q \in {0, 1, 3}}

FeeItemLists ==
  {<<i>> : i \in FeeItems}
    \cup {<<[price |-> 159000, qty |-> 2], i>> : i \in FeeItems}

\* Orders placed through POST /api/order and POST /order under the pricing
\* configurations.
NextFees ==
  \/ \E email \in Emails, items \in FeeItemLists, smtp_ok \in BOOLEAN,
        percent \in FeePercents, flat \in FlatFees :
       api_order_priced(email, items, smtp_ok, percent, flat)
  \/ \E user_id \in 1..Len(users), items \in FeeItemLists \cup {<<>>},
        percent \in FeePercents, flat \in FlatFees :
       order(user_id, items, percent, flat)

SpecFees == Init /\ [][NextFees]_vars

\* ------------------------------------------- place order: the requests
\* Requests a run of SpecPlace serves.
PlaceRequests == 1

\* Item lists of the requests: none, a regular one, and lists with a zero or
\* a negative quantity or price, alone or after a regular item.
REGULAR_ITEMS == << [price |-> 159000, qty |-> 2], [price |-> 25000, qty |-> 1] >>

PlaceItemLists ==
  { <<>>, REGULAR_ITEMS,
    << [price |-> 25000, qty |-> 0] >>, << [price |-> 0, qty |-> 1] >>,
    << [price |-> 25000, qty |-> -1] >>, << [price |-> -99, qty |-> 1] >>,
    << [price |-> 159000, qty |-> 2], [price |-> 25000, qty |-> -1] >> }

\* Pricing configurations: flat mode with and without a flat fee, dynamic
\* mode with and without fee bounds and with and without a mapping key.
FLAT_CONFIGS ==
  {PricingConfig("flat", flat, percent, 10000, 5000, 550, 15000, 40000,
                 TRUE) :
     flat \in FlatFees, percent \in FeePercents}

DYNAMIC_CONFIGS ==
  {PricingConfig("dynamic", 12000, 5, 10000, 5000, 550, b[1], b[2], api_key) :
     b \in {<<0, 0>>, <<20000, 40000>>}, api_key \in BOOLEAN}

PricingConfigs == {cfg \in FLAT_CONFIGS : cfg.percent > 0} \cup DYNAMIC_CONFIGS

\* Replies of the mapping service with an estimate (metres, seconds).
GeoEstimates ==
  {GeoReply("ok", <<m>>, Absent, <<s>>) :
     m \in {1234, 5200, 12000}, s \in {249, 900, 1500}}
    \cup {GeoReply("ok", <<5200>>, <<1200>>, <<900>>)}

\* A reply with a negative distance and duration.
GEO_NEGATIVE == GeoReply("ok", <<-500>>, Absent, <<-60>>)

\* A reply whose element carries neither a distance nor a duration.
GEO_NO_VALUES == GeoReply("ok", Absent, Absent, Absent)

\* The call raises: no connection, no answer within the timeout, a reply
\* that is not JSON or has no rows.
GeoFailures ==
  {GeoReply(kind, Absent, Absent, Absent) :
     kind \in {"unreachable", "timeout", "malformed"}}

GeoReplies ==
  GeoEstimates \cup {GEO_NEGATIVE, GEO_NO_VALUES} \cup GeoFailures

Hours == 0..23

\* What the mapping service does and the hour of the clock; the clock is
\* read only when the estimate is the fallback one.
GeoAndHour ==
  {<<geo, 0>> : geo \in GeoReplies}
    \cup {<<GEO_UNREACHABLE, hr>> : hr \in Hours}

\* Where the restaurant and the drop-off point of a request may be.
RestaurantPoints == {Absent, <<RESTAURANT>>}
DropoffPoints ==
  {Absent, <<DROPOFF_NEAR>>, <<DROPOFF_FAR>>, <<DROPOFF_EQUATOR>>,
   <<RESTAURANT>>}

\* Requests that differ in what is validated, and requests that differ in
\* what is priced.  The mapping service and the clock are inputs of the
\* requests that are priced dynamically; for every other request the service
\* is taken as unreachable.
ValidationData ==
  {OrderData(email, items, restaurant_id, Absent, Absent) :
     email \in Emails, items \in PlaceItemLists,
     restaurant_id \in RestaurantIds}

PricingData ==
  {OrderData("", REGULAR_ITEMS, "", restaurant, dropoff) :
     restaurant \in RestaurantPoints, dropoff \in DropoffPoints}

\* Requests with both points given, and what the mapping service and the
\* clock do to some of them: every reply of the service for the near
\* drop-off point, and no reply at three hours of the day for both points.
DATA_NEAR == OrderData("", REGULAR_ITEMS, "", <<RESTAURANT>>, <<DROPOFF_NEAR>>)
DATA_FAR == OrderData("", REGULAR_ITEMS, "", <<RESTAURANT>>, <<DROPOFF_FAR>>)

EstimateCalls ==
  {<<DATA_NEAR, geo, 0>> :
     geo \in GeoEstimates \cup {GEO_NEGATIVE, GEO_NO_VALUES}}
    \cup {<<data, GEO_UNREACHABLE, hr>> :
            data \in {DATA_NEAR, DATA_FAR}, hr \in {0, 8, 12}}

NextPlace ==
  \/ \E data \in ValidationData, cfg \in FLAT_CONFIGS, smtp_ok \in BOOLEAN :
       api_order_request(data, cfg, GEO_UNREACHABLE, 0, smtp_ok)
  \/ \E data \in PricingData, cfg \in PricingConfigs :
       api_order_request(data, cfg, GEO_UNREACHABLE, 0, TRUE)
  \/ \E data \in {DATA_NEAR, DATA_FAR}, cfg \in DYNAMIC_CONFIGS,
        gh \in GeoAndHour :
       api_order_request(data, cfg, gh[1], gh[2], TRUE)
  \/ \E user_id \in 1..Len(users), items \in PlaceItemLists,
        percent \in FeePercents, flat \in FlatFees :
       order(user_id, items, percent, flat)

InitPlace ==
  /\ orders = <<>>
  /\ users = <<ADMIN_EMAIL_DEFAULT>>
  /\ req = [d \in Drivers |-> IdleReq]
  /\ resp = NoResp
  /\ driver_presence = <<>>
  /\ placing = [c \in Clients |-> NotPlacing]
  /\ sent = MaxRequests - PlaceRequests

SpecPlace == InitPlace /\ [][NextPlace]_vars

\* ------------------------------------------------------ admin: order status
\* Mutant: the admin handler also takes the status the driver API writes.
admin_status_valid_with_on_the_way(new_status) ==
  new_status \in allowed \cup {"on_the_way"}

\* new_status in allowed
admin_status_valid(new_status) == new_status \in allowed

\* Mutant: the UPDATE also resets the total, to be computed again later.
SetStatus_and_total(ords, order_id, new_status) ==
  IF order_id \in 1..Len(ords)
    THEN [ords EXCEPT ![order_id].status = new_status,
                      ![order_id].grand_total = 0]
    ELSE ords

\* UPDATE orders SET status=? WHERE id=?   (no row: nothing changes)
SetStatus(ords, order_id, new_status) ==
  IF order_id \in 1..Len(ords)
    THEN [ords EXCEPT ![order_id].status = new_status]
    ELSE ords

\* UPDATE orders SET driver_id=?, status=? WHERE id=?
SetDriverAndStatus(ords, order_id, driver_id, new_status) ==
  IF order_id \in 1..Len(ords)
    THEN [ords EXCEPT ![order_id].driver_id = driver_id,
                      ![order_id].status = new_status]
    ELSE ords

\* Mutant: the status is written only when the notification was sent.
admin_order_status_mail_first(order_id, raw, smtp_ok) ==
  /\ Receive
  /\ LET new_status == strip_lower(raw) IN
       IF ~admin_status_valid(new_status)
         THEN /\ resp' = Response("admin_order_status", 302, "danger", "none")
              /\ UNCHANGED <<driver_presence, placing, orders, users, req>>
         ELSE /\ orders' = IF smtp_ok
                             THEN SetStatus(orders, order_id, new_status)
                             ELSE orders
              /\ resp' = IF smtp_ok
                           THEN Response("admin_order_status", 302, "success", "sent")
                           ELSE Response("admin_order_status", 302, "warning",
                                         "failed")
              /\ UNCHANGED <<driver_presence, placing, users, req>>

\* POST /admin/orders/<order_id>/status; smtp_ok is what send_email_safe
\* returns for the notification.
admin_order_status(order_id, raw, smtp_ok) ==
  /\ Receive
  /\ LET new_status == strip_lower(raw) IN
       IF ~admin_status_valid(new_status)
         THEN /\ resp' = Response("admin_order_status", 302, "danger", "none")
              /\ UNCHANGED <<driver_presence, placing, orders, users, req>>
         ELSE /\ orders' = SetStatus(orders, order_id, new_status)
              /\ resp' = IF smtp_ok
                           THEN Response("admin_order_status", 302, "success", "sent")
                           ELSE Response("admin_order_status", 302, "warning",
                                         "failed")
              /\ UNCHANGED <<driver_presence, placing, users, req>>

\* -------------------------------------------------------------- driver API
\* A driver sends a request when no request of theirs is between its SELECT
\* and its UPDATE.
CanSend(d) == req[d].op = "none"

Reading(op, order_id, status) ==
  [op |-> op, order_id |-> order_id, status |-> status,
   o |-> SelectOrder(orders, order_id)]

\* Mutant: the check of the driver reference is missing.
accept_error_without_assigned_check(o) ==
  IF ~o.found THEN "Order not found"
  ELSE IF o.status \in {"delivered", "cancelled"} THEN "Order already closed"
  ELSE ""

\* Mutant: the check of the closed statuses is missing.
accept_error_without_closed_check(o) ==
  IF ~o.found THEN "Order not found"
  ELSE IF o.driver_id # NULL THEN "Order already assigned"
  ELSE ""

\* The checks of api_driver_accept on the row it selected: the error it
\* answers with, "" when the order is accepted.
accept_error(o) ==
  IF ~o.found THEN "Order not found"
  ELSE IF o.driver_id # NULL THEN "Order already assigned"
  ELSE IF o.status \in {"delivered", "cancelled"} THEN "Order already closed"
  ELSE ""

\* "on_the_way" if o["status"] in ("pending","preparing","on_the_way") else o["status"]
accept_new_status(o) ==
  IF o.status \in {"pending", "preparing", "on_the_way"}
    THEN "on_the_way" ELSE o.status

\* _resp_ok answers 200; _resp_err answers the status it is given (400 when
\* none is given).
ErrorCode(error) ==
  CASE error = "" -> 200
    [] error = "Order not found" -> 404
    [] error = "This order is assigned to another driver" -> 403
    [] OTHER -> 400

\* POST /api/driver/accept/<order_id>: the SELECT.
api_driver_accept_select(d, order_id) ==
  /\ CanSend(d)
  /\ Receive
  /\ req' = [req EXCEPT ![d] = Reading("accept", order_id, "")]
  /\ UNCHANGED <<driver_presence, placing, orders, users, resp>>

\* POST /api/driver/accept/<order_id>: the checks, the UPDATE and the commit.
api_driver_accept_update(d) ==
  /\ req[d].op = "accept"
  /\ LET o == req[d].o
         order_id == req[d].order_id
         error == accept_error(o)
     IN /\ orders' = IF error = ""
                       THEN SetDriverAndStatus(orders, order_id, d,
                                               accept_new_status(o))
                       ELSE orders
        /\ resp' = Response("accept", ErrorCode(error), error, "none")
  /\ req' = [req EXCEPT ![d] = IdleReq]
  /\ UNCHANGED <<driver_presence, placing, users, sent>>

\* Mutant: the comparison of the driver reference with the caller is missing.
assigned_error_without_driver_check(d, o) ==
  IF ~o.found THEN "Order not found" ELSE ""

\* The check of api_driver_update and api_driver_complete on the row they
\* selected.
assigned_error(d, o) ==
  IF ~o.found THEN "Order not found"
  ELSE IF o.driver_id # d THEN "This order is assigned to another driver"
  ELSE ""

\* Mutant: an unknown sub-status is taken as delivered.
update_new_status_unknown_delivers(status, o) ==
  IF status = "picked_up" THEN "on_the_way" ELSE "delivered"

\* 'picked_up' -> "on_the_way"; 'delivered' -> "delivered"; else unchanged
update_new_status(status, o) ==
  IF status = "picked_up" THEN "on_the_way"
  ELSE IF status = "delivered" THEN "delivered"
  ELSE o.status

\* The store after the order part of api_driver_update, given the row o it
\* selected.
update_write(ords, d, order_id, status, o) ==
  IF assigned_error(d, o) = "" /\ update_new_status(status, o) # o.status
    THEN SetStatus(ords, order_id, update_new_status(status, o))
    ELSE ords

\* POST /api/driver/update without coordinates: the SELECT.  No write
\* statement has run, so no transaction is open.
api_driver_update_select(d, order_id, status) ==
  /\ CanSend(d)
  /\ Receive
  /\ req' = [req EXCEPT ![d] = Reading("update", order_id, status)]
  /\ UNCHANGED <<driver_presence, placing, orders, users, resp>>

\* POST /api/driver/update without coordinates: the checks, the UPDATE and
\* the commit.
api_driver_update_write(d) ==
  /\ req[d].op = "update"
  /\ LET o == req[d].o
         error == assigned_error(d, o)
     IN /\ orders' = update_write(orders, d, req[d].order_id, req[d].status, o)
        /\ resp' = Response("update", ErrorCode(error), error, "none")
  /\ req' = [req EXCEPT ![d] = IdleReq]
  /\ UNCHANGED <<driver_presence, placing, users, sent>>

\* POST /api/driver/update with coordinates: "UPDATE drivers SET lat, lng"
\* runs first and opens the transaction, so the SELECT, the UPDATE of the
\* order and the commit are one step for every other writer.
api_driver_update_txn(d, order_id, status) ==
  /\ CanSend(d)
  /\ Receive
  /\ LET o == SelectOrder(orders, order_id)
         error == assigned_error(d, o)
     IN /\ orders' = update_write(orders, d, order_id, status, o)
        /\ resp' = Response("update", ErrorCode(error), error, "none")
  /\ UNCHANGED <<driver_presence, placing, users, req>>

\* POST /api/driver/update without order_id or without status: only the
\* driver's location is touched.
api_driver_update_location(d) ==
  /\ CanSend(d)
  /\ Receive
  /\ resp' = Response("update", 200, "", "none")
  /\ UNCHANGED <<driver_presence, placing, orders, users, req>>

\* POST /api/driver/complete/<order_id>: the SELECT.
api_driver_complete_select(d, order_id) ==
  /\ CanSend(d)
  /\ Receive
  /\ req' = [req EXCEPT ![d] = Reading("complete", order_id, "")]
  /\ UNCHANGED <<driver_presence, placing, orders, users, resp>>

\* Mutant: an order that is already delivered is answered as closed.
api_driver_complete_update_once(d) ==
  /\ req[d].op = "complete"
  /\ LET o == req[d].o
         error == IF assigned_error(d, o) = "" /\ o.status = "delivered"
                    THEN "Order already closed"
                    ELSE assigned_error(d, o)
     IN /\ orders' = IF error = ""
                       THEN SetStatus(orders, req[d].order_id, "delivered")
                       ELSE orders
        /\ resp' = Response("complete", ErrorCode(error), error, "none")
  /\ req' = [req EXCEPT ![d] = IdleReq]
  /\ UNCHANGED <<driver_presence, placing, users, sent>>

\* POST /api/driver/complete/<order_id>: the checks, the UPDATE and the
\* commit.
api_driver_complete_update(d) ==
  /\ req[d].op = "complete"
  /\ LET o == req[d].o
         error == assigned_error(d, o)
     IN /\ orders' = IF error = "" /\ o.status # "delivered"
                       THEN SetStatus(orders, req[d].order_id, "delivered")
                       ELSE orders
        /\ resp' = Response("complete", ErrorCode(error), error, "none")
  /\ req' = [req EXCEPT ![d] = IdleReq]
  /\ UNCHANGED <<driver_presence, placing, users, sent>>

\* ------------------------------------------------------ listings for drivers
\* A listing response: the ids of the rows it returns, in the order returned.
Listing(op, code, rows) ==
  [op |-> op, code |-> code, msg |-> "", mail |-> "none", rows |-> rows]

\* LIMIT 50
OPEN_ORDERS_LIMIT == 50

\* Mutant: the listing also selects pending orders.
is_open_with_pending(row) ==
  /\ row.driver_id = NULL
  /\ row.status \in {"pending", "confirmed", "preparing", "ready"}

\* WHERE (driver_id IS NULL OR driver_id = 0)
\*   AND status IN ('confirmed','preparing','ready')
is_open(row) ==
  /\ row.driver_id = NULL
  /\ row.status \in {"confirmed", "preparing", "ready"}

RECURSIVE open_orders_from(_, _, _)
\* The rows of ords from order_id on that the WHERE clause selects, in
\* ascending id, at most limit of them (ORDER BY id ASC LIMIT ?).
open_orders_from(ords, order_id, limit) ==
  IF order_id > Len(ords) \/ limit = 0 THEN <<>>
  ELSE IF is_open(ords[order_id])
    THEN <<order_id>> \o open_orders_from(ords, order_id + 1, limit - 1)
    ELSE open_orders_from(ords, order_id + 1, limit)

\* GET /api/open_orders
api_open_orders ==
  /\ Receive
  /\ resp' = Listing("api_open_orders", 200,
                     open_orders_from(orders, 1, OPEN_ORDERS_LIMIT))
  /\ UNCHANGED <<driver_presence, placing, orders, users, req>>

\* Values of the optional "status" query parameter of GET /api/driver/orders
\* ("" stands for a missing parameter).
DriverOrderFilters == {"", "preparing"}

\* GET /api/driver/orders.  Both of its queries select the columns
\* customer_name, name, phone and address, which the orders table (init_db,
\* and the driver_id migration of _migrate) does not have: execute raises
\* sqlite3.OperationalError ("no such column") whatever the filter and the
\* store, and the request is answered 500 with no rows.
api_driver_orders(d, status) ==
  /\ CanSend(d)
  /\ Receive
  /\ resp' = Listing("api_driver_orders", 500, <<>>)
  /\ UNCHANGED <<driver_presence, placing, orders, users, req>>

\* ------------------------------------------------------------ specification
Next ==
  \/ \E email \in Emails, items \in ItemLists, smtp_ok \in BOOLEAN :
       api_order(email, items, smtp_ok)
  \/ \E order_id \in OrderIds, raw \in RawStatuses, smtp_ok \in BOOLEAN :
       admin_order_status(order_id, raw, smtp_ok)
  \/ \E d \in Drivers, order_id \in OrderIds :
       api_driver_accept_select(d, order_id)
  \/ \E d \in Drivers : api_driver_accept_update(d)
  \/ \E d \in Drivers, order_id \in OrderIds, status \in DriverStatuses :
       api_driver_update_select(d, order_id, status)
  \/ \E d \in Drivers : api_driver_update_write(d)
  \/ \E d \in Drivers, order_id \in OrderIds, status \in DriverStatuses :
       api_driver_update_txn(d, order_id, status)
  \/ \E d \in Drivers : api_driver_update_location(d)
  \/ \E d \in Drivers, order_id \in OrderIds :
       api_driver_complete_select(d, order_id)
  \/ \E d \in Drivers : api_driver_complete_update(d)
  \/ api_open_orders
  \/ \E d \in Drivers, status \in DriverOrderFilters :
       api_driver_orders(d, status)

Spec == Init /\ [][Next]_vars

\* The same server with a budget of ShortRequests requests.
InitShort ==
  /\ orders = <<>>
  /\ users = <<ADMIN_EMAIL_DEFAULT>>
  /\ req = [d \in Drivers |-> IdleReq]
  /\ resp = NoResp
  /\ driver_presence = <<>>
  /\ placing = [c \in Clients |-> NotPlacing]
  /\ sent = MaxRequests - ShortRequests

SpecShort == InitShort /\ [][Next]_vars

\* ---------------------------------------------------------- driver presence
\* Values of the "driver_id" field of POST /api/driver/available: the
\* handler takes any integer, 0 stands for a missing or zero field.
PresenceDriverIds == {0} \cup Drivers

\* Values of the "available" field, as JSON text: the boolean true, the
\* strings "on", "TRUE" and "1", the boolean false, and null for a missing
\* field.
AvailableValues == {"true", "\"on\"", "\"TRUE\"", "\"1\"", "false", "null"}

\* 1 if (data.get("available") in (True, 1, "true", "yes", "on")) else 0
available_flag(raw) ==
  IF raw \in {"true", "1", "\"true\"", "\"yes\"", "\"on\""} THEN 1 ELSE 0

\* Positions a driver reports; NoPosition is a report without lat and lng
\* (data.get gives None, stored as NULL).
NoPosition == [lat |-> NULL, lng |-> NULL]
PresencePoints == {NoPosition, RESTAURANT, DROPOFF_NEAR}

PresenceRow(driver_id, available, lat, lng, updated_at) ==
  [driver_id |-> driver_id, available |-> available, lat |-> lat,
   lng |-> lng, updated_at |-> updated_at]

\* Mutant: a plain INSERT into a table without the primary key.
upsert_without_conflict_clause(rows, row) == Append(rows, row)

\* INSERT INTO driver_presence ... ON CONFLICT(driver_id) DO UPDATE SET
\* available, lat, lng, updated_at = excluded.*: the row of the driver is
\* overwritten in place, a driver without a row gets one.
upsert(rows, row) ==
  IF \E i \in 1..Len(rows) : rows[i].driver_id = row.driver_id
    THEN [i \in 1..Len(rows) |->
            IF rows[i].driver_id = row.driver_id THEN row ELSE rows[i]]
    ELSE Append(rows, row)

\* POST /api/driver/available.  updated_at is the time of the request,
\* counted in requests received.
api_driver_available(driver_id, raw_available, point) ==
  /\ Receive
  /\ IF driver_id = 0
       THEN /\ resp' = Response("api_driver_available", 400,
                                "driver_id required", "none")
            /\ UNCHANGED driver_presence
       ELSE /\ driver_presence' =
                 upsert(driver_presence,
                        PresenceRow(driver_id, available_flag(raw_available),
                                    point.lat, point.lng, sent'))
            /\ resp' = Response("api_driver_available", 200, "", "none")
  /\ UNCHANGED <<orders, users, req, placing>>

\* The server under presence reports only, with a budget of
\* PresenceRequests requests.
PresenceRequests == 3

NextPresence ==
  \E driver_id \in PresenceDriverIds, raw_available \in AvailableValues,
     point \in PresencePoints :
    api_driver_available(driver_id, raw_available, point)

InitPresence ==
  /\ orders = <<>>
  /\ users = <<ADMIN_EMAIL_DEFAULT>>
  /\ req = [d \in Drivers |-> IdleReq]
  /\ resp = NoResp
  /\ driver_presence = <<>>
  /\ placing = [c \in Clients |-> NotPlacing]
  /\ sent = MaxRequests - PresenceRequests

SpecPresence == InitPresence /\ [][NextPresence]_vars

\* ------------------------------------------------- an order being delivered
\* The handlers that act on an order after it was placed, and the presence
\* reports, with one request body per handler and a budget of
\* DeliveryRequests requests.
DeliveryRequests == 4

DELIVERY_ITEMS == << [price |-> 159000, qty |-> 2], [price |-> 25000, qty |-> 1] >>

NextDelivery ==
  \/ api_order("", DELIVERY_ITEMS, TRUE)
  \/ \E order_id \in OrderIds, raw \in {"preparing", "cancelled"} :
       admin_order_status(order_id, raw, TRUE)
  \/ \E d \in Drivers, order_id \in OrderIds :
       api_driver_accept_select(d, order_id)
  \/ \E d \in Drivers : api_driver_accept_update(d)
  \/ \E d \in Drivers, order_id \in OrderIds :
       api_driver_update_select(d, order_id, "delivered")
  \/ \E d \in Drivers : api_driver_update_write(d)
  \/ \E d \in Drivers, order_id \in OrderIds :
       api_driver_update_txn(d, order_id, "picked_up")
  \/ \E d \in Drivers, order_id \in OrderIds :
       api_driver_complete_select(d, order_id)
  \/ \E d \in Drivers : api_driver_complete_update(d)
  \/ \E d \in Drivers : api_driver_available(d, "true", RESTAURANT)

InitDelivery ==
  /\ orders = <<>>
  /\ users = <<ADMIN_EMAIL_DEFAULT>>
  /\ req = [d \in Drivers |-> IdleReq]
  /\ resp = NoResp
  /\ driver_presence = <<>>
  /\ placing = [c \in Clients |-> NotPlacing]
  /\ sent = MaxRequests - DeliveryRequests

SpecDelivery == InitDelivery /\ [][NextDelivery]_vars

\* ------------------------------------------------------ reading orders back
\* json.loads(row["items_json"]) if row["items_json"] else []; the text
\* json.dumps wrote for the list of the request parses to that list, and
\* the text of an empty list is "[]", which is not an empty string.
loads_items(row) == row.items

\* What api_my_orders and order_detail compute from an order row: a stored
\* items_total of 0 is computed again from the items, with float(qty), and a
\* stored grand_total of 0 is replaced by the sum of the three amounts.
read_items_total(row) ==
  IF row.items_total = 0 /\ loads_items(row) # <<>>
    THEN SumItemsFloat(loads_items(row))
    ELSE row.items_total

read_total(row) ==
  IF row.grand_total # 0 THEN row.grand_total
  ELSE read_items_total(row) + row.delivery_fee + row.service_fee

Breakdown(order_id, row) ==
  [id |-> order_id, status |-> row.status, items |-> loads_items(row),
   items_total |-> read_items_total(row), delivery_fee |-> row.delivery_fee,
   service_fee |-> row.service_fee, total |-> read_total(row)]

\* A response that carries orders as they are read back.
Breakdowns(op, code, msg, rows) ==
  [op |-> op, code |-> code, msg |-> msg, mail |-> "none", orders |-> rows]

RECURSIVE my_orders_from(_, _, _)
\* SELECT ... FROM orders WHERE user_id = ? ORDER BY id DESC, from order_id
\* down.
my_orders_from(ords, user_id, order_id) ==
  IF order_id = 0 THEN <<>>
  ELSE IF ords[order_id].user_id = user_id
    THEN <<Breakdown(order_id, ords[order_id])>>
           \o my_orders_from(ords, user_id, order_id - 1)
    ELSE my_orders_from(ords, user_id, order_id - 1)

\* Values of the "user_id" query parameter of GET /api/my_orders (NULL for
\* a missing parameter or 0).
QueryUserIds == {NULL, 1, 2}

\* GET /api/my_orders
api_my_orders(email, user_id) ==
  /\ Receive
  /\ LET by_email == user_id = NULL /\ email # ""
         found == IF by_email THEN UserIdOf(users, email) ELSE user_id
     IN resp' =
          IF found = NULL
            THEN IF by_email
                   THEN Breakdowns("api_my_orders", 200, "", <<>>)
                   ELSE Breakdowns("api_my_orders", 400,
                                   "email or user_id required", <<>>)
            ELSE Breakdowns("api_my_orders", 200, "",
                            my_orders_from(orders, found, Len(orders)))
  /\ UNCHANGED <<orders, users, req, driver_presence, placing>>

\* bool(user["is_admin"]) of the session: only the account init_db creates
\* is an administrator.
is_admin(user_id) == user_id = 1

\* GET /order/<order_id> in the session of user_id.
order_detail(user_id, order_id) ==
  /\ Receive
  /\ user_id \in 1..Len(users)
  /\ resp' =
       IF order_id \notin 1..Len(orders)
         THEN Breakdowns("order_detail", 302, "warning", <<>>)
       ELSE IF ~is_admin(user_id) /\ orders[order_id].user_id # user_id
         THEN Breakdowns("order_detail", 302, "danger", <<>>)
       ELSE Breakdowns("order_detail", 200, "",
                       <<Breakdown(order_id, orders[order_id])>>)
  /\ UNCHANGED <<orders, users, req, driver_presence, placing>>

\* Item lists of orders that are read back: whole quantities, a quantity of
\* one half, of one and a half, and of zero.
ReadItemLists ==
  { << [price |-> 159000, qty |-> 2], [price |-> 25000, qty |-> 1] >>,
    << [price |-> 25000, qty |-> 0, half |-> 1] >>,
    << [price |-> 25000, qty |-> 1, half |-> 1] >>,
    << [price |-> 25000, qty |-> 0] >> }

\* Orders placed through both routes and read back, with a budget of
\* ReadRequests requests.
ReadRequests == 2

NextRead ==
  \/ \E email \in Emails, items \in ReadItemLists,
        percent \in FeePercents, flat \in FlatFees :
       api_order_priced(email, items, TRUE, percent, flat)
  \/ \E user_id \in 1..Len(users), items \in ReadItemLists \cup {<<>>},
        percent \in FeePercents, flat \in FlatFees :
       order(user_id, items, percent, flat)
  \/ \E email \in Emails, user_id \in QueryUserIds :
       api_my_orders(email, user_id)
  \/ \E user_id \in 1..Len(users), order_id \in OrderIds :
       order_detail(user_id, order_id)

InitRead ==
  /\ orders = <<>>
  /\ users = <<ADMIN_EMAIL_DEFAULT>>
  /\ req = [d \in Drivers |-> IdleReq]
  /\ resp = NoResp
  /\ driver_presence = <<>>
  /\ placing = [c \in Clients |-> NotPlacing]
  /\ sent = MaxRequests - ReadRequests

SpecRead == InitRead /\ [][NextRead]_vars

\* ------------------------------------------- POST /api/order, step by step
\* The handler of POST /api/order as the statements that other requests can
\* interleave with: the call of the mapping service, the SELECT of the
\* account, the INSERT and commit of a guest account, and the INSERT and
\* commit of the order.  The connection is in python's default mode, so a
\* transaction starts with each INSERT and ends with the commit after it.

\* compute_dynamic_delivery_fee calls google_drive_time_distance, which
\* sends the HTTP request, when the fee is dynamic and the API key is set.
calls_geo(data, cfg) ==
  /\ use_dynamic_fee(cfg, ValueOr0(data.restaurant_lat),
                     ValueOr0(data.restaurant_lng),
                     ValueOr0(data.dropoff_lat), ValueOr0(data.dropoff_lng))
  /\ cfg.api_key

\* Mutant: the account is looked up and stored before the fee is computed.
api_order_steps_account_first(data, cfg) ==
  (IF data.email # "" THEN <<"select_user", "insert_user">> ELSE <<>>)
    \o (IF calls_geo(data, cfg) THEN <<"geo">> ELSE <<>>)
    \o <<"insert_order">>

\* The steps of the handler in the order of the code, for a request that
\* passed the check of the items.  "insert_user" is skipped when the SELECT
\* finds the account.
api_order_steps(data, cfg) ==
  (IF calls_geo(data, cfg) THEN <<"geo">> ELSE <<>>)
    \o (IF data.email # "" THEN <<"select_user", "insert_user">> ELSE <<>>)
    \o <<"insert_order">>

\* The request of a client between two of its steps: the steps still to
\* run, the request, the configuration, the hour, the reply of the mapping
\* service (Absent until the call returns) and the id of the account row
\* the handler holds in u.
Placing(steps, data, cfg, hr, geo, user_id) ==
  [pc |-> "placing", steps |-> steps, data |-> data, cfg |-> cfg, hr |-> hr,
   geo |-> geo, user_id |-> user_id]

AtStep(c, step) ==
  /\ placing[c].pc = "placing"
  /\ Head(placing[c].steps) = step

\* The request is received: the items are checked and the amounts that need
\* no call are computed.
api_order_receive(c, data, cfg, hr) ==
  /\ placing[c].pc = "none"
  /\ Receive
  /\ IF data.items = <<>>
       THEN /\ resp' = Response("api_order", 400, "No items", "none")
            /\ UNCHANGED placing
       ELSE /\ placing' = [placing EXCEPT ![c] =
                 Placing(api_order_steps(data, cfg), data, cfg, hr, Absent,
                         NULL)]
            /\ UNCHANGED resp
  /\ UNCHANGED <<orders, users, req, driver_presence>>

\* urllib.request.urlopen(url, timeout=8) returns or raises: geo is what
\* the mapping service did.
api_order_geo(c, geo) ==
  /\ AtStep(c, "geo")
  /\ placing' = [placing EXCEPT ![c].geo = <<geo>>,
                                ![c].steps = Tail(placing[c].steps)]
  /\ UNCHANGED <<orders, users, req, resp, sent, driver_presence>>

\* SELECT id, name FROM users WHERE email=?
api_order_select_user(c) ==
  /\ AtStep(c, "select_user")
  /\ LET u == UserIdOf(users, placing[c].data.email)
         rest == Tail(placing[c].steps)
     IN placing' = [placing EXCEPT
          ![c].user_id = u,
          ![c].steps = IF u # NULL
                         THEN SelectSeq(rest, LAMBDA s : s # "insert_user")
                         ELSE rest]
  /\ UNCHANGED <<orders, users, req, resp, sent, driver_presence>>

\* Mutant: the users table without the UNIQUE constraint on email.
insert_user_without_unique(us, email) ==
  [raised |-> FALSE, users |-> Append(us, email)]

\* INSERT INTO users (name, email, password_hash): email is UNIQUE, so the
\* statement raises sqlite3.IntegrityError when a row has the email.
insert_user(us, email) ==
  IF \E i \in 1..Len(us) : us[i] = email
    THEN [raised |-> TRUE, users |-> us]
    ELSE [raised |-> FALSE, users |-> Append(us, email)]

\* The INSERT of the guest account, the commit and the SELECT of the new
\* row.  An exception of the INSERT is answered 500.
api_order_insert_user(c) ==
  /\ AtStep(c, "insert_user")
  /\ LET email == placing[c].data.email
         inserted == insert_user(users, email)
     IN IF inserted.raised
          THEN /\ placing' = [placing EXCEPT ![c] = NotPlacing]
               /\ resp' = Response("api_order", 500, "", "none")
               /\ UNCHANGED users
          ELSE /\ users' = inserted.users
               /\ placing' = [placing EXCEPT
                    ![c].user_id = UserIdOf(inserted.users, email),
                    ![c].steps = Tail(placing[c].steps)]
               /\ UNCHANGED resp
  /\ UNCHANGED <<orders, req, sent, driver_presence>>

\* The INSERT of the order, the commit, the confirmation email and the
\* answer.  int() of the restaurant id raises while the arguments of the
\* INSERT are evaluated.
api_order_insert_order(c, smtp_ok) ==
  /\ AtStep(c, "insert_order")
  /\ LET p == placing[c]
         geo == IF p.geo = Absent THEN GEO_UNREACHABLE ELSE p.geo[1]
         items_total == Amount(SumItems(p.data.items))
         delivery_fee == Amount(delivery_fee_of(p.data, p.cfg, geo, p.hr))
         service_fee == ServiceFee(items_total, p.cfg.percent)
     IN IF int_raises(p.data.restaurant_id)
          THEN /\ resp' = Response("api_order", 500, "", "none")
               /\ UNCHANGED orders
          ELSE /\ Len(orders) < MaxOrders
               /\ orders' = Append(orders,
                    NewOrderRow(p.user_id, p.data.items, items_total,
                                service_fee, delivery_fee))
               /\ resp' = Response("api_order", 200, "",
                             IF p.data.email = "" THEN "none"
                             ELSE IF smtp_ok THEN "sent" ELSE "failed")
  /\ placing' = [placing EXCEPT ![c] = NotPlacing]
  /\ UNCHANGED <<users, req, sent, driver_presence>>

\* Contact emails of concurrent requests.
ConcurrentEmails == {"", "guest@example.com", "other@example.com"}

\* Requests with both points, with a restaurant id that is missing or not a
\* number, and a request without items.
ConcurrentData ==
  {OrderData(email, REGULAR_ITEMS, restaurant_id, <<RESTAURANT>>,
             <<DROPOFF_NEAR>>) :
     email \in ConcurrentEmails, restaurant_id \in {"", "seven"}}
    \cup {OrderData("", <<>>, "", Absent, Absent)}

\* A flat and a dynamic configuration with the API key set.
ConcurrentConfigs ==
  {PricingConfig("flat", 15000, 5, 10000, 5000, 550, 0, 0, TRUE),
   PricingConfig("dynamic", 12000, 5, 10000, 5000, 550, 0, 0, TRUE)}

\* What the mapping service does in a concurrent request.
ConcurrentGeoReplies ==
  {GEO_UNREACHABLE, GeoReply("ok", <<5200>>, Absent, <<900>>)}

\* Concurrent POST /api/order requests, with a budget of ConcurrentRequests
\* requests.
ConcurrentRequests == 2

NextConcurrent ==
  \/ \E c \in Clients, data \in ConcurrentData, cfg \in ConcurrentConfigs :
       api_order_receive(c, data, cfg, 0)
  \/ \E c \in Clients, geo \in ConcurrentGeoReplies : api_order_geo(c, geo)
  \/ \E c \in Clients : api_order_select_user(c)
  \/ \E c \in Clients : api_order_insert_user(c)
  \/ \E c \in Clients : api_order_insert_order(c, TRUE)

InitConcurrent ==
  /\ orders = <<>>
  /\ users = <<ADMIN_EMAIL_DEFAULT>>
  /\ req = [d \in Drivers |-> IdleReq]
  /\ resp = NoResp
  /\ driver_presence = <<>>
  /\ placing = [c \in Clients |-> NotPlacing]
  /\ sent = MaxRequests - ConcurrentRequests

SpecConcurrent == InitConcurrent /\ [][NextConcurrent]_vars

\* ------------------------------------------------------------------ claims
\* The terminal statuses of the lifecycle.
Terminal == {"delivered", "cancelled"}

\* The order rows of the store.
Stored == 1..Len(orders)

\* The admin handler answered that the status was set (with the email sent,
\* or with the warning that it failed).
AdminApplied(r) ==
  r.op = "admin_order_status" /\ r.msg \in {"success", "warning"}

\* C1: of the accept requests on one order exactly one succeeds: an accept
\* that commits when the order already has a driver reports a conflict and
\* leaves the driver reference with the winner, and an accept that succeeds
\* leaves its own driver in the driver reference.
C1_ExactlyOneAcceptSucceeds ==
  [][\A d \in Drivers :
       api_driver_accept_update(d) =>
         LET order_id == req[d].order_id IN
           /\ (resp'.code = 200 => orders'[order_id].driver_id = d)
           /\ (order_id \in Stored /\ orders[order_id].driver_id # NULL
                 => /\ resp'.code # 200
                    /\ orders'[order_id].driver_id = orders[order_id].driver_id)
    ]_vars

\* C2: once the driver reference of an order is set, no step changes it.
C2_DriverReferenceNeverChanges ==
  [][\A order_id \in Stored :
       orders[order_id].driver_id # NULL
         => orders'[order_id].driver_id = orders[order_id].driver_id
    ]_vars

\* C3: set_order_status on a delivered or cancelled order is rejected, never
\* answered as applied, and leaves the status as it was.
C3_TerminalRejectsSetStatus ==
  [][\A order_id \in Stored, raw \in RawStatuses, smtp_ok \in BOOLEAN :
       admin_order_status(order_id, raw, smtp_ok)
       /\ orders[order_id].status \in Terminal
         => /\ ~AdminApplied(resp')
            /\ orders'[order_id].status = orders[order_id].status
    ]_vars

\* C4: an accept whose SELECT returned an order that has a driver, or whose
\* status is delivered or cancelled, is answered with an error and writes
\* nothing (whatever ran between its SELECT and its answer).
C4_AcceptOnAssignedOrClosedRejected ==
  [][\A d \in Drivers :
       api_driver_accept_update(d)
       /\ req[d].o.found
       /\ (req[d].o.driver_id # NULL \/ req[d].o.status \in Terminal)
         => /\ resp'.op = "accept" /\ resp'.code = 400
            /\ orders' = orders
    ]_vars

\* C4 witness: an accept was answered "Order already assigned" for an order
\* that has a driver.
C4_Witness ==
  /\ resp = Response("accept", 400, "Order already assigned", "none")
  /\ \E order_id \in Stored : orders[order_id].driver_id # NULL

\* The assigned driver reports an order delivered: driver_update with
\* sub-status delivered, or complete.
DriverReportsDelivered(d, order_id) ==
  \/ api_driver_update_write(d)
       /\ req[d].order_id = order_id /\ req[d].status = "delivered"
  \/ api_driver_update_txn(d, order_id, "delivered")
  \/ api_driver_complete_update(d) /\ req[d].order_id = order_id

\* The driver API answered last, and with success.
DriverAnswered(r) == r.op \in {"update", "complete"} /\ r.code = 200

\* C5: of an admin's cancel and the assigned driver's delivered report on one
\* order, the write that commits second leaves the terminal status written
\* first: a cancel that follows the driver's report leaves delivered, and a
\* delivered report that follows the admin's cancel leaves cancelled.
C5_SecondTerminalWriteIsNoOp ==
  [][\A order_id \in Stored :
       /\ orders[order_id].status = "delivered"
          /\ orders[order_id].driver_id # NULL
          /\ DriverAnswered(resp)
          /\ (\E smtp_ok \in BOOLEAN :
                admin_order_status(order_id, "cancelled", smtp_ok))
            => orders'[order_id].status = "delivered"
       /\ orders[order_id].status = "cancelled"
          /\ AdminApplied(resp)
          /\ (\E d \in Drivers : DriverReportsDelivered(d, order_id))
            => orders'[order_id].status = "cancelled"
    ]_vars

\* C6: no step changes the status of an order that has a driver to pending.
C6_AssignedNeverBackToPending ==
  [][\A order_id \in Stored :
       orders[order_id].driver_id # NULL
       /\ orders[order_id].status # "pending"
         => orders'[order_id].status # "pending"
    ]_vars

\* C7: the status of every stored order is one of the seven enumerated
\* values.
C7_StatusInEnumeration ==
  \A order_id \in Stored : orders[order_id].status \in allowed

\* The raw status values that, trimmed and lower-cased, are none of the seven.
InvalidRaw == {raw \in RawStatuses : strip_lower(raw) \notin allowed}

\* C8: set_order_status with a status that (trimmed and lower-cased) is not
\* one of the seven values is answered "Invalid status.", changes no order
\* row and sends no notification.
C8_InvalidStatusRejected ==
  [][resp'.op = "admin_order_status" =>
       \A order_id \in OrderIds, raw \in InvalidRaw, smtp_ok \in BOOLEAN :
         admin_order_status(order_id, raw, smtp_ok)
           => /\ orders' = orders
              /\ resp' = Response("admin_order_status", 302, "danger", "none")
    ]_vars

\* C8 witness: a status request was answered "Invalid status." while an
\* order is stored.
C8_Witness ==
  /\ resp = Response("admin_order_status", 302, "danger", "none")
  /\ Stored # {}

\* The lifecycle graph: pending -> confirmed -> preparing ->
\* {out_for_delivery | ready} -> delivered, and cancelled from every
\* non-terminal status.
LifecycleEdges ==
  { <<"pending", "confirmed">>, <<"confirmed", "preparing">>,
    <<"preparing", "out_for_delivery">>, <<"preparing", "ready">>,
    <<"out_for_delivery", "delivered">>, <<"ready", "delivered">> }
  \cup { <<s, "cancelled">> : s \in allowed \ Terminal }

\* C9: every status change applied by set_order_status is an edge of the
\* lifecycle graph.
C9_SetStatusFollowsLifecycle ==
  [][\A order_id \in Stored, raw \in RawStatuses, smtp_ok \in BOOLEAN :
       admin_order_status(order_id, raw, smtp_ok)
       /\ orders'[order_id].status # orders[order_id].status
         => <<orders[order_id].status, orders'[order_id].status>>
              \in LifecycleEdges
    ]_vars

ReadIsCurrent(d) == req[d].o = SelectOrder(orders, req[d].order_id)

\* C11: the scenario place_order, set_order_status(confirmed), accept_order
\* by driver A, accept_order by driver B, delivered report by A, one more
\* status change, handlers running one after the other: the accept of a
\* confirmed unassigned order leaves it out_for_delivery with driver A; an
\* accept by another driver is then rejected and changes nothing; the
\* delivered report of A leaves it delivered; and a status change that
\* follows the delivered report is rejected and leaves it delivered.
C11_ScenarioConfirmAcceptDeliver ==
  [][\A order_id \in Stored :
       /\ \A d \in Drivers :
            /\ api_driver_accept_update(d) /\ req[d].order_id = order_id
               /\ ReadIsCurrent(d)
               /\ orders[order_id].status = "confirmed"
               /\ orders[order_id].driver_id = NULL
                 => /\ orders'[order_id].status = "out_for_delivery"
                    /\ orders'[order_id].driver_id = d
            /\ api_driver_accept_update(d) /\ req[d].order_id = order_id
               /\ ReadIsCurrent(d)
               /\ orders[order_id].driver_id \notin {NULL, d}
                 => /\ resp'.code # 200
                    /\ orders' = orders
            /\ DriverReportsDelivered(d, order_id)
               /\ orders[order_id].driver_id = d
               /\ (req[d].op # "none" => ReadIsCurrent(d))
                 => orders'[order_id].status = "delivered"
       /\ \A raw \in RawStatuses, smtp_ok \in BOOLEAN :
            admin_order_status(order_id, raw, smtp_ok)
            /\ orders[order_id].status = "delivered"
            /\ orders[order_id].driver_id # NULL
            /\ DriverAnswered(resp)
              => /\ ~AdminApplied(resp')
                 /\ orders'[order_id].status = "delivered"
    ]_vars

\* A listing endpoint answered last.
IsListing(r) == r.op \in {"api_open_orders", "api_driver_orders"}

\* The set of the elements of a sequence.
Range(seq) == {seq[i] : i \in 1..Len(seq)}

\* The two readings of "the dispatchable set": the statuses section 4.3
\* names, and the admin-advanced statuses of the glossary.
DispatchableSets ==
  { {"pending", "preparing", "ready"}, {"confirmed", "preparing", "ready"} }

\* The stored orders without a driver whose status is in D.
Dispatchable(D) ==
  {order_id \in Stored :
     orders[order_id].driver_id = NULL /\ orders[order_id].status \in D}

\* C12: under one of the readings of the dispatchable set, every answer of a
\* listing endpoint lists only orders that have no driver and a dispatchable
\* status, and lists every such order when they are at most the page cap
\* (and a full page of them otherwise).
C12_ListingIsDispatchableSet ==
  IsListing(resp) =>
    \E D \in DispatchableSets :
      /\ Range(resp.rows) \subseteq Dispatchable(D)
      /\ IF Cardinality(Dispatchable(D)) <= OPEN_ORDERS_LIMIT
           THEN Range(resp.rows) = Dispatchable(D)
           ELSE Len(resp.rows) = OPEN_ORDERS_LIMIT

\* The smaller of two numbers.
Min(a, b) == IF a <= b THEN a ELSE b

\* C13: under one of the readings of the dispatchable set, every answer of a
\* listing endpoint is in ascending creation order (ascending id), has at
\* most 50 orders, and consists of the oldest dispatchable orders: all of
\* them when they are at most 50, the 50 oldest otherwise.
C13_ListingOldestFirstCapped ==
  IsListing(resp) =>
    /\ \A i, j \in 1..Len(resp.rows) : i < j => resp.rows[i] < resp.rows[j]
    /\ Len(resp.rows) <= OPEN_ORDERS_LIMIT
    /\ \E D \in DispatchableSets :
         /\ Len(resp.rows)
              = Min(OPEN_ORDERS_LIMIT, Cardinality(Dispatchable(D)))
         /\ \A order_id \in Range(resp.rows) : order_id \in Dispatchable(D)
         /\ \A order_id \in Dispatchable(D) \ Range(resp.rows) :
              \A listed \in Range(resp.rows) : listed < order_id

\* The orders GET /api/open_orders would return from the store ords.
OpenNow(ords) == Range(open_orders_from(ords, 1, OPEN_ORDERS_LIMIT))

C15_OnlyAssignedDriverReports ==
  [][\A d \in Drivers :
       /\ (api_driver_update_write(d) \/ api_driver_complete_update(d))
          /\ req[d].o.found /\ req[d].o.driver_id # d
            => /\ resp'.op \in {"update", "complete"} /\ resp'.code = 403
               /\ orders' = orders
       /\ \A order_id \in Stored, status \in DriverStatuses :
            api_driver_update_txn(d, order_id, status)
            /\ orders[order_id].driver_id # d
              => /\ resp'.op = "update" /\ resp'.code = 403
                 /\ orders' = orders
    ]_vars

\* C15 witness: a report on an order that has a driver was answered 403.
C15_Witness ==
  /\ resp.op \in {"update", "complete"}
  /\ resp.code = 403
  /\ \E order_id \in Stored : orders[order_id].driver_id # NULL

\* Driver d reports order_id picked up: driver_update with sub-status
\* picked_up.
DriverReportsPickedUp(d, order_id) ==
  \/ api_driver_update_write(d)
       /\ req[d].order_id = order_id /\ req[d].status = "picked_up"
  \/ api_driver_update_txn(d, order_id, "picked_up")

\* C16: a picked_up report of the assigned driver leaves the status of the
\* order as it was, whatever that status is.
C16_PickedUpKeepsStatus ==
  [][\A d \in Drivers, order_id \in Stored :
       DriverReportsPickedUp(d, order_id)
       /\ orders[order_id].driver_id = d
         => orders'[order_id].status = orders[order_id].status
    ]_vars

\* C17: a picked_up report of the assigned driver that is answered with
\* success leaves picked_up_at set, a delivered report leaves delivered_at
\* set; no step changes a timestamp that is set; and when both are set,
\* picked_up_at is not later than delivered_at.
C17_TimestampsSetOnce ==
  [][\A order_id \in Stored :
       /\ \A d \in Drivers :
            /\ DriverReportsPickedUp(d, order_id)
               /\ orders[order_id].driver_id = d /\ resp'.code = 200
                 => orders'[order_id].picked_up_at # NULL
            /\ DriverReportsDelivered(d, order_id)
               /\ orders[order_id].driver_id = d /\ resp'.code = 200
                 => orders'[order_id].delivered_at # NULL
       /\ orders[order_id].picked_up_at # NULL
            => orders'[order_id].picked_up_at = orders[order_id].picked_up_at
       /\ orders[order_id].delivered_at # NULL
            => orders'[order_id].delivered_at = orders[order_id].delivered_at
       /\ orders'[order_id].picked_up_at # NULL
          /\ orders'[order_id].delivered_at # NULL
            => orders'[order_id].picked_up_at <= orders'[order_id].delivered_at
    ]_vars

\* A step of admin_order_status on order_id with a status of the seven and a
\* notification that fails leaves the requested status stored, every other
\* field and row as it was, and is answered as applied, with the warning.
AdminKeepsStatusOnMailFailure ==
  \A order_id \in Stored, raw \in RawStatuses :
    admin_order_status(order_id, raw, FALSE) /\ strip_lower(raw) \in allowed
      => /\ orders' = SetStatus(orders, order_id, strip_lower(raw))
         /\ orders'[order_id].status = strip_lower(raw)
         /\ resp' = Response("admin_order_status", 302, "warning", "failed")

\* A step of api_order with a contact email and items whose confirmation
\* fails leaves the new order stored, pending, and is answered 200 with the
\* given message ("" for none).
OrderKeptOnMailFailure(msg) ==
  \A email \in Emails \ {""}, items \in ItemLists \ {<<>>} :
    api_order(email, items, FALSE)
      => /\ Len(orders') = Len(orders) + 1
         /\ orders'[Len(orders')].status = "pending"
         /\ orders'[Len(orders')].items = items
         /\ resp'.code = 200 /\ resp'.msg = msg

C19_StatusChangeNotifies ==
  [][(\E order_id \in Stored :
        orders'[order_id].status # orders[order_id].status)
       => resp'.mail \in {"sent", "failed"}
    ]_vars

RECURSIVE SumOfFirst(_, _)
\* The sum of unit price times quantity over the first n items.
SumOfFirst(items, n) ==
  IF n = 0 THEN 0
  ELSE SumOfFirst(items, n - 1) + items[n].price * items[n].qty

ApiOrderStep ==
  \/ \E data \in ValidationData, cfg \in FLAT_CONFIGS, smtp_ok \in BOOLEAN :
       api_order_request(data, cfg, GEO_UNREACHABLE, 0, smtp_ok)
  \/ \E data \in PricingData, cfg \in PricingConfigs :
       api_order_request(data, cfg, GEO_UNREACHABLE, 0, TRUE)
  \/ \E data \in {DATA_NEAR, DATA_FAR}, cfg \in DYNAMIC_CONFIGS,
        gh \in GeoAndHour :
       api_order_request(data, cfg, gh[1], gh[2], TRUE)

\* A step of POST /api/order or of POST /order whose item list satisfies P.
PlaceOrderStepWith(P(_)) ==
  \/ \E data \in ValidationData, cfg \in FLAT_CONFIGS, smtp_ok \in BOOLEAN :
       P(data.items)
         /\ api_order_request(data, cfg, GEO_UNREACHABLE, 0, smtp_ok)
  \/ \E user_id \in 1..Len(users), items \in PlaceItemLists,
        percent \in FeePercents, flat \in FlatFees :
       P(items) /\ order(user_id, items, percent, flat)

\* The request is answered as refused and no table has changed.
RejectedAndNothingWritten ==
  /\ resp'.code # 200 /\ resp'.msg # "success"
  /\ orders' = orders
  /\ users' = users

IsEmptyList(items) == items = <<>>

HasNonPositiveItem(items) ==
  \E k \in 1..Len(items) : items[k].qty <= 0 \/ items[k].price <= 0

\* C21: a place_order whose item list is empty is rejected and writes
\* nothing, neither an order row nor an account row, on POST /api/order and
\* on POST /order alike.
C21_EmptyListWritesNothing ==
  [][PlaceOrderStepWith(IsEmptyList) => RejectedAndNothingWritten]_vars

\* C22: a place_order with a line item whose quantity or price is zero or
\* negative is rejected and writes nothing, on either route.
C22_NonPositiveItemWritesNothing ==
  [][PlaceOrderStepWith(HasNonPositiveItem) => RejectedAndNothingWritten]_vars

\* C23: a POST /api/order that ends in an error leaves the orders and the
\* users tables as they were: no guest account is left without its order.
C23_FailedOrderWritesNothing ==
  [][ApiOrderStep /\ resp'.code # 200
       => orders' = orders /\ users' = users]_vars

\* C24: every stored order has items_total, delivery_fee, service_fee and
\* grand_total at or above zero.
C24_StoredAmountsNonNegative ==
  \A order_id \in Stored :
    /\ orders[order_id].items_total >= 0
    /\ orders[order_id].delivery_fee >= 0
    /\ orders[order_id].service_fee >= 0
    /\ orders[order_id].grand_total >= 0

\* -------------------------------------------------- place order: the fee
\* The row a step has appended to the orders table.
NewRow == orders'[Len(orders')]

\* C25: in flat pricing mode the delivery fee of the stored order is the
\* configured flat amount (0 when none is configured), wherever the
\* restaurant and the drop-off point are and whether or not they are given.
C25_FlatModeFeeIsFlat ==
  [][\A data \in PricingData, cfg \in PricingConfigs :
       cfg.mode = "flat" /\
         api_order_request(data, cfg, GEO_UNREACHABLE, 0, TRUE)
         => NewRow.delivery_fee = Amount(cfg.flat)]_vars

\* C25 witness: an order with both points given is stored in flat mode with
\* the flat fee of 15000.
C25_Witness ==
  /\ resp.op = "api_order" /\ resp.code = 200
  /\ \E order_id \in Stored :
       /\ orders[order_id].delivery_fee = Amount(15000)
       /\ orders[order_id].items = REGULAR_ITEMS

\* The estimate a call of EstimateCalls is priced with.
EstimateOf(cfg, call) ==
  estimate(cfg, call[2], call[3],
           ValueOr0(call[1].restaurant_lat), ValueOr0(call[1].restaurant_lng),
           ValueOr0(call[1].dropoff_lat), ValueOr0(call[1].dropoff_lng))

\* C26: in dynamic mode, under one pricing configuration, the delivery fee
\* of a stored order is at most the fee of every estimate that is at least
\* as long in distance and in duration.
C26_FeeMonotoneInEstimate ==
  [][\A cfg \in DYNAMIC_CONFIGS, call \in EstimateCalls :
       cfg.api_key /\ api_order_request(call[1], cfg, call[2], call[3], TRUE)
         => \A longer \in EstimateCalls :
              LET e1 == EstimateOf(cfg, call)
                  e2 == EstimateOf(cfg, longer)
              IN e1.dist_km <= e2.dist_km /\ e1.dur_min <= e2.dur_min
                   => NewRow.delivery_fee
                        <= Amount(dynamic_fee(cfg, e2.dist_km, e2.dur_min))
    ]_vars

\* C26 witness: the order priced from the estimate of 1.234 km and 249 s
\* without fee bounds is stored with a delivery fee of 18452.
C26_Witness ==
  /\ resp.op = "api_order" /\ resp.code = 200
  /\ \E order_id \in Stored : orders[order_id].delivery_fee = Amount(18452)

\* C27: in dynamic mode with a minimum and a maximum fee configured, the
\* delivery fee of a stored order lies between the two, whatever the
\* estimate is and wherever it comes from.
C27_FeeWithinBounds ==
  [][\A cfg \in DYNAMIC_CONFIGS, call \in EstimateCalls :
       /\ cfg.min_fee > 0 /\ cfg.max_fee > 0
       /\ api_order_request(call[1], cfg, call[2], call[3], TRUE)
       => /\ Amount(cfg.min_fee) <= NewRow.delivery_fee
          /\ NewRow.delivery_fee <= Amount(cfg.max_fee)
    ]_vars

\* C27 witness: an order whose estimate prices above the maximum fee is
\* stored with the maximum fee of 40000.
C27_Witness ==
  /\ resp.op = "api_order" /\ resp.code = 200
  /\ \E order_id \in Stored : orders[order_id].delivery_fee = Amount(40000)

\* All four coordinates are fields of the request.
BothPointsSupplied(data) ==
  /\ data.restaurant_lat # Absent /\ data.restaurant_lng # Absent
  /\ data.dropoff_lat # Absent /\ data.dropoff_lng # Absent

\* The dynamic fee of a request, whatever api_order decides.
DynamicFeeOf(data, cfg, geo, hr) ==
  compute_dynamic_delivery_fee(cfg, geo, hr,
    ValueOr0(data.restaurant_lat), ValueOr0(data.restaurant_lng),
    ValueOr0(data.dropoff_lat), ValueOr0(data.dropoff_lng))

\* An estimate the mapping service may reply with.
GEO_ESTIMATE == GeoReply("ok", <<5200>>, Absent, <<900>>)

\* C28: in dynamic mode the stored delivery fee is the dynamic fee exactly
\* when both points are fields of the request, whatever their values, and
\* the flat fee exactly when one of them is missing.
C28_DynamicFeeIffBothPointsSupplied ==
  [][\A cfg \in DYNAMIC_CONFIGS, data \in PricingData :
       api_order_request(data, cfg, GEO_ESTIMATE, 0, TRUE)
         => NewRow.delivery_fee
              = Amount(IF BothPointsSupplied(data)
                         THEN DynamicFeeOf(data, cfg, GEO_ESTIMATE, 0)
                         ELSE cfg.flat)
    ]_vars

\* The fee of the fallback estimate: the straight line, three minutes per
\* kilometre, times the time-of-day multiplier.
FallbackFeeOf(data, cfg, hr) ==
  LET dist_km == haversine_km(ValueOr0(data.restaurant_lat),
                              ValueOr0(data.restaurant_lng),
                              ValueOr0(data.dropoff_lat),
                              ValueOr0(data.dropoff_lng))
  IN dynamic_fee(cfg, dist_km,
                 (dist_km * 3 * time_of_day_multiplier(hr)) \div HUNDRED)

\* C29: in dynamic mode with both points given the request is answered 200
\* whatever the mapping service does, and unless a key is configured and
\* the service replies with an estimate, the stored delivery fee is the fee
\* of the fallback estimate.
C29_FallbackWithoutEstimate ==
  [][\A cfg \in DYNAMIC_CONFIGS, data \in {DATA_NEAR, DATA_FAR},
        gh \in GeoAndHour :
       api_order_request(data, cfg, gh[1], gh[2], TRUE)
         => /\ resp'.code = 200
            /\ NewRow.delivery_fee
                 = Amount(IF cfg.api_key /\ gh[1] \in GeoEstimates
                            THEN DynamicFeeOf(data, cfg, gh[1], gh[2])
                            ELSE FallbackFeeOf(data, cfg, gh[2]))
    ]_vars

\* The multiplier the hours of the day are to have, in hundredths.
MultiplierAt(hr) ==
  IF hr \in {7, 8, 9, 16, 17, 18, 19} THEN 130
  ELSE IF hr \in {11, 12, 13} THEN 115
  ELSE 100

\* C30: at every hour of the day an order priced from the fallback estimate
\* is charged the duration of three minutes per kilometre times 1.3 in the
\* hours 7-9 and 16-19, times 1.15 in the hours 11-13 and times 1.0 in every
\* other hour.
C30_MultiplierByHour ==
  [][\A hr \in Hours, cfg \in DYNAMIC_CONFIGS :
       cfg.min_fee = 0 /\ ~cfg.api_key
         /\ api_order_request(DATA_NEAR, cfg, GEO_UNREACHABLE, hr, TRUE)
       => LET dist_km == haversine_km(RESTAURANT.lat, RESTAURANT.lng,
                                      DROPOFF_NEAR.lat, DROPOFF_NEAR.lng)
          IN NewRow.delivery_fee
               = Amount(dynamic_fee(cfg, dist_km,
                          (dist_km * 3 * MultiplierAt(hr)) \div HUNDRED))
    ]_vars

\* C30 witness: the order of 2.671 km priced in a rush hour is stored with a
\* delivery fee of 29084 (27762 at night, 28423 at noon).
C30_Witness ==
  /\ resp.op = "api_order" /\ resp.code = 200
  /\ \E order_id \in Stored : orders[order_id].delivery_fee = Amount(29084)

\* The order row is as place_order stores it: pending, with no driver.
Untouched(row) == row.status = "pending" /\ row.driver_id = NULL

\* A set_order_status (POST /admin/orders/<id>/status) or an accept_order
\* (the UPDATE of POST /api/driver/accept/<id>) is applied to order_id.
SetStatusOrAcceptOn(order_id) ==
  \/ \E raw \in RawStatuses, smtp_ok \in BOOLEAN :
       admin_order_status(order_id, raw, smtp_ok)
  \/ \E d \in Drivers :
       api_driver_accept_update(d) /\ req[d].order_id = order_id

\* C33: a step that stores a new order stores it pending with a null driver
\* reference, and a step that changes the status or the driver reference of
\* an order that is still pending with a null driver reference is a
\* set_order_status or an accept_order applied to that order.
C33_PendingUnassignedUntilTouched ==
  [][/\ Len(orders') > Len(orders) => Untouched(orders'[Len(orders')])
     /\ \A order_id \in Stored :
          Untouched(orders[order_id]) /\ ~Untouched(orders'[order_id])
            => SetStatusOrAcceptOn(order_id)
    ]_vars

\* C33 witness: a driver's update or complete has been answered and the
\* order is still pending with no driver.
C33_Witness ==
  /\ resp.op \in {"update", "complete"}
  /\ \E order_id \in Stored : Untouched(orders[order_id])

\* The sub-statuses with a defined effect.
EffectiveSubStatuses == {"picked_up", "delivered"}

\* C36: a driver_update that carries a sub-status other than picked_up and
\* delivered, sent by the driver in the driver reference of the order row it
\* selected, is answered 200 and leaves every order row as it was: status,
\* driver reference and timestamps.
C36_UnknownSubStatusIsNoOp ==
  [][\A d \in Drivers :
       /\ (/\ api_driver_update_write(d)
           /\ req[d].status \notin EffectiveSubStatuses
           /\ req[d].o.found /\ req[d].o.driver_id = d)
            => resp'.op = "update" /\ resp'.code = 200 /\ orders' = orders
       /\ \A order_id \in Stored :
            \A status \in DriverStatuses \ EffectiveSubStatuses :
              (/\ api_driver_update_txn(d, order_id, status)
               /\ orders[order_id].driver_id = d)
                => resp'.op = "update" /\ resp'.code = 200 /\ orders' = orders
    ]_vars

\* C36 witness: the handler has selected the order of its own driver for a
\* request with sub-status arrived, and that order is not delivered.
C36_Witness ==
  \E d \in Drivers :
    /\ req[d].op = "update" /\ req[d].status = "arrived"
    /\ req[d].o.found /\ req[d].o.driver_id = d
    /\ orders[req[d].order_id].status # "delivered"

\* The stage of a status in the lifecycle pending -> confirmed -> preparing
\* -> {out_for_delivery | ready} -> delivered, with "on_the_way" (the value
\* the driver API writes) at the stage of out_for_delivery and cancelled
\* with the terminal stage.
Stage(status) ==
  CASE status = "pending" -> 0
    [] status = "confirmed" -> 1
    [] status = "preparing" -> 2
    [] status \in {"out_for_delivery", "on_the_way", "ready"} -> 3
    [] status \in Terminal -> 4

\* C35: an accept_order answered with success leaves the accepting driver in
\* the driver reference of the order and its status at the same or a later
\* stage of the lifecycle than before the write.
C35_AcceptNeverMovesBack ==
  [][\A d \in Drivers :
       api_driver_accept_update(d) /\ resp'.code = 200
         => LET order_id == req[d].order_id IN
              /\ orders'[order_id].driver_id = d
              /\ Stage(orders'[order_id].status)
                   >= Stage(orders[order_id].status)
    ]_vars

\* The rows of the registry that belong to driver_id.
RowsOf(rows, driver_id) ==
  {i \in 1..Len(rows) : rows[i].driver_id = driver_id}

\* The rows of driver_id, without their place in the table.
PresenceOf(rows, driver_id) == {rows[i] : i \in RowsOf(rows, driver_id)}

\* C32: after every report_driver_presence the registry holds at most one
\* row per driver id, the one row of the reporting driver holds the
\* available flag and the coordinates of that report, and the rows of every
\* other driver are as before.
C32_OneRowPerDriverLastWriteWins ==
  [][/\ \A driver_id \in Drivers :
          Cardinality(RowsOf(driver_presence', driver_id)) <= 1
     /\ \A driver_id \in Drivers, raw_available \in AvailableValues,
           point \in PresencePoints :
          api_driver_available(driver_id, raw_available, point)
            => /\ \E i \in 1..Len(driver_presence') :
                    /\ RowsOf(driver_presence', driver_id) = {i}
                    /\ driver_presence'[i].available
                         = (IF raw_available \in {"true", "\"on\""}
                              THEN 1 ELSE 0)
                    /\ driver_presence'[i].lat = point.lat
                    /\ driver_presence'[i].lng = point.lng
               /\ \A other \in Drivers \ {driver_id} :
                    PresenceOf(driver_presence', other)
                      = PresenceOf(driver_presence, other)
    ]_vars

\* C32 witness: a driver who had reported position and availability has
\* reported again, unavailable and without a position, while another driver
\* has a row too.
C32_Witness ==
  /\ resp.op = "api_driver_available" /\ resp.code = 200
  /\ Len(driver_presence) = 2
  /\ driver_presence[1].updated_at = sent
  /\ driver_presence[1].available = 0
  /\ driver_presence[1].lat = NULL
  /\ driver_presence[2].available = 1

\* The line items and the amounts of an order row.
Priced(row) ==
  <<row.items, row.items_total, row.delivery_fee, row.service_fee,
    row.grand_total>>

\* C34: no step changes the line items, items_total, delivery_fee,
\* service_fee or grand_total of a stored order: set_order_status,
\* accept_order, driver_update, complete and report_driver_presence leave
\* them as they were stored at creation.
C34_PricedFieldsNeverChange ==
  [][\A order_id \in Stored :
       Priced(orders'[order_id]) = Priced(orders[order_id])
    ]_vars

\* C34 witness: an order was accepted and delivered, a presence report was
\* answered last, and the order has the amounts of its line items.
C34_Witness ==
  /\ resp.op = "api_driver_available" /\ resp.code = 200
  /\ \E order_id \in Stored :
       /\ orders[order_id].status = "delivered"
       /\ orders[order_id].driver_id # NULL
       /\ orders[order_id].items = DELIVERY_ITEMS
       /\ orders[order_id].grand_total = Amount(2 * 159000 + 25000)

\* C39: a complete by the driver in the driver reference of the order row
\* it selected, on an order that is delivered (in the row it selected or in
\* the store when it commits), is answered 200 and leaves every order row
\* as it was: completing twice leaves the order as completing once.
C39_CompleteIsIdempotent ==
  [][\A d \in Drivers :
       (/\ api_driver_complete_update(d)
        /\ req[d].o.found /\ req[d].o.driver_id = d
        /\ \/ req[d].o.status = "delivered"
           \/ orders[req[d].order_id].status = "delivered")
         => resp'.op = "complete" /\ resp'.code = 200 /\ orders' = orders
    ]_vars

\* C39 witness: the complete handler has selected an order of its own
\* driver that is already delivered.
C39_Witness ==
  \E d \in Drivers :
    /\ req[d].op = "complete"
    /\ req[d].o.found /\ req[d].o.driver_id = d
    /\ req[d].o.status = "delivered"
    /\ orders[req[d].order_id].status = "delivered"

\* An order read back is the order as stored: the same line items in the
\* same order and the same four amounts.
ReadsAsStored(e) ==
  /\ e.id \in Stored
  /\ e.items = orders[e.id].items
  /\ e.items_total = orders[e.id].items_total
  /\ e.delivery_fee = orders[e.id].delivery_fee
  /\ e.service_fee = orders[e.id].service_fee
  /\ e.total = orders[e.id].grand_total

\* C31: every order that list_my_orders (GET /api/my_orders) or get_order
\* (GET /order/<id>) returns has the line items, items_total, delivery_fee,
\* service_fee and grand total stored for it at creation.
C31_ReadBackIsStored ==
  resp.op \in {"api_my_orders", "order_detail"}
    => \A i \in 1..Len(resp.orders) : ReadsAsStored(resp.orders[i])

\* The call of the mapping service of the request is still to be made or
\* to return.
GeoPending(p) ==
  p.pc = "placing" /\ \E i \in 1..Len(p.steps) : p.steps[i] = "geo"

\* C37: a step of a place_order request whose call of the mapping service
\* has not returned writes nothing to the store: every store write of the
\* request comes after its geo call.
C37_GeoCallBeforeStoreWrites ==
  [][\A c \in Clients :
       GeoPending(placing[c]) /\ placing'[c] # placing[c]
         => UNCHANGED <<orders, users, driver_presence>>
    ]_vars

\* C37 witness: a request whose call of the mapping service returned has
\* stored its guest account and is about to store its order.
C37_Witness ==
  \E c \in Clients :
    /\ AtStep(c, "insert_order")
    /\ placing[c].geo # Absent
    /\ placing[c].user_id \in 2..Len(users)
    /\ users[placing[c].user_id] = placing[c].data.email

\* C38: no two accounts have the same email, and an order stored by a
\* place_order request that carries an email has the id of the account with
\* that email as its user reference.
C38_OneAccountPerEmail ==
  [][/\ \A i, j \in 1..Len(users') : users'[i] = users'[j] => i = j
     /\ \A c \in Clients :
          (/\ api_order_insert_order(c, TRUE)
           /\ Len(orders') > Len(orders)
           /\ placing[c].data.email # "")
            => LET row == orders'[Len(orders')] IN
                 /\ row.user_id \in 1..Len(users')
                 /\ users'[row.user_id] = placing[c].data.email
    ]_vars

\* C38 witness: two requests with the same new email have both found no
\* account; one has stored the account, the other is about to insert it.
C38_Witness ==
  \E c1, c2 \in Clients :
    /\ c1 # c2
    /\ AtStep(c1, "insert_order")
    /\ AtStep(c2, "insert_user")
    /\ placing[c1].data.email = placing[c2].data.email
    /\ placing[c1].user_id \in 2..Len(users)
    /\ users[placing[c1].user_id] = placing[c1].data.email
    /\ placing[c2].user_id = NULL

====
